---------------------------- MODULE Spec2Model ----------------------------
(***************************************************************************)
(* StegoGuard (secret-click-craft): LSB steganography codec                *)
(* (src/src/utils/steganography.ts) and the click-sequence matcher of the  *)
(* decode UI (DecodeMode and ImageCanvas in                                *)
(* src/src/components/EncodeMode.tsx).                                     *)
(*                                                                         *)
(* Strings are sequences of UTF-16 code units (naturals), bit strings are  *)
(* sequences over {0,1}, a pixel buffer is the flat RGBA byte array of an  *)
(* ImageData (4 bytes per pixel, row-major).  Sequences are 1-based here,  *)
(* so byte k of the source (0-based) is element k+1.                       *)
(***************************************************************************)
EXTENDS Integers, Sequences, FiniteSets, TLC

(***************************************************************************)
(* Bounds of the model.                                                    *)
(***************************************************************************)
MaxMsgLen == 3        \* longest message (a run of one character) of the codec specification
MaxSlack == 1         \* spare pixels beyond the exact capacity boundary
MaxTimers == 2        \* pending setTimeout callbacks kept at once
MaxLater == 16        \* pixels overwritten after the delimiter, at each end of the rest

(***************************************************************************)
(* Generic helpers.                                                        *)
(***************************************************************************)
\* Concatenation of a sequence of sequences (join('')), by halving.
RECURSIVE Flatten(_)
Flatten(ss) ==
    IF ss = <<>> THEN <<>>
    ELSE IF Len(ss) = 1 THEN ss[1]
    ELSE LET h == Len(ss) \div 2
         IN  Flatten(SubSeq(ss, 1, h)) \o Flatten(SubSeq(ss, h + 1, Len(ss)))

Reverse(s) == [i \in 1..Len(s) |-> s[Len(s) + 1 - i]]

Min(a, b) == IF a <= b THEN a ELSE b

(***************************************************************************)
(* stringToBinary / binaryToString  (steganography.ts 13-26)               *)
(***************************************************************************)
\* Number.prototype.toString(2): binary digits without leading zeros.
RECURSIVE ToBinary(_)
ToBinary(n) == IF n < 2 THEN <<n>> ELSE Append(ToBinary(n \div 2), n % 2)

\* String.prototype.padStart(8, '0'): pads, never truncates.
PadStart8(b) == IF Len(b) >= 8 THEN b ELSE [i \in 1..(8 - Len(b)) |-> 0] \o b

CharToBits(c) == PadStart8(ToBinary(c))

stringToBinary(str) == Flatten([i \in 1..Len(str) |-> CharToBits(str[i])])

\* parseInt(byte, 2) of an 8-character group.
RECURSIVE ParseInt2(_)
ParseInt2(b) == IF b = <<>> THEN 0
                ELSE 2 * ParseInt2(SubSeq(b, 1, Len(b) - 1)) + b[Len(b)]

\* binary.match(/.{8}/g): the complete 8-bit groups, a trailing partial
\* group is dropped; no group at all gives ''.
binaryToString(binary) ==
    [k \in 1..(Len(binary) \div 8) |-> ParseInt2(SubSeq(binary, 8 * k - 7, 8 * k))]

(***************************************************************************)
(* JSON.stringify of a SteganographyData value (steganography.ts 42).      *)
(* Numbers are modelled as sixteenths: the natural v stands for v/16, so   *)
(* normalized coordinates in [0,1] are 0..16 and the integer order n is    *)
(* 16*n.                                                                   *)
(***************************************************************************)
Den == 16

RECURSIVE DecDigits(_)
DecDigits(n) == IF n < 10 THEN <<48 + n>> ELSE Append(DecDigits(n \div 10), 48 + (n % 10))

RECURSIVE StripZeros(_)
StripZeros(d) == IF d # <<>> /\ d[Len(d)] = 48 THEN StripZeros(SubSeq(d, 1, Len(d) - 1)) ELSE d

\* The four decimal places of f/16, f in 1..15 (f * 625 / 10000).
FracDigits(f) ==
    LET n == f * 625
    IN  StripZeros(<<48 + (n \div 1000), 48 + ((n \div 100) % 10),
                     48 + ((n \div 10) % 10), 48 + (n % 10)>>)

\* Number::toString of v/16.
NumberToString(v) ==
    IF v % Den = 0 THEN DecDigits(v \div Den)
    ELSE DecDigits(v \div Den) \o <<46>> \o FracDigits(v % Den)

HexDigit(n) == IF n < 10 THEN 48 + n ELSE 87 + n

\* QuoteJSONString: escapes of one code unit.
EscapeChar(c) ==
    CASE c = 34 -> <<92, 34>>
      [] c = 92 -> <<92, 92>>
      [] c = 8  -> <<92, 98>>
      [] c = 9  -> <<92, 116>>
      [] c = 10 -> <<92, 110>>
      [] c = 12 -> <<92, 102>>
      [] c = 13 -> <<92, 114>>
      [] c < 32 /\ c \notin {8, 9, 10, 12, 13} ->
            <<92, 117, 48, 48, HexDigit(c \div 16), HexDigit(c % 16)>>
      [] OTHER -> <<c>>

JSONString(s) == <<34>> \o Flatten([i \in 1..Len(s) |-> EscapeChar(s[i])]) \o <<34>>

KeyMessage == <<123, 34, 109, 101, 115, 115, 97, 103, 101, 34, 58>>          \* {"message":
KeyClickSequence ==
    <<44, 34, 99, 108, 105, 99, 107, 83, 101, 113, 117, 101, 110, 99, 101, 34, 58, 91>>
                                                                             \* ,"clickSequence":[
KeyX == <<123, 34, 120, 34, 58>>                                             \* {"x":
KeyY == <<44, 34, 121, 34, 58>>                                              \* ,"y":
KeyOrder == <<44, 34, 111, 114, 100, 101, 114, 34, 58>>                      \* ,"order":

JSONPoint(p) ==
    KeyX \o NumberToString(p.x) \o KeyY \o NumberToString(p.y)
         \o KeyOrder \o NumberToString(Den * p.order) \o <<125>>

RECURSIVE JSONPoints(_)
JSONPoints(ps) ==
    IF ps = <<>> THEN <<>>
    ELSE IF Len(ps) = 1 THEN JSONPoint(ps[1])
    ELSE JSONPoint(ps[1]) \o <<44>> \o JSONPoints(Tail(ps))

JSONstringify(data) ==
    KeyMessage \o JSONString(data.message) \o KeyClickSequence
               \o JSONPoints(data.clickSequence) \o <<93, 125>>

(***************************************************************************)
(* JSON.parse (steganography.ts 106), restricted to the texts this model   *)
(* produces: the serialization of a SteganographyData value (parsed left   *)
(* to right, unescaping strings and reading numbers), the literal null and *)
(* an unsigned integer literal.  Any other text is a SyntaxError.          *)
(* Insignificant white space, negative numbers and exponents are not       *)
(* modelled; no input drawn below contains them.                           *)
(***************************************************************************)
Fail == [ok |-> FALSE, val |-> <<>>, next |-> 0]

IsDigit(c) == c >= 48 /\ c <= 57

IsHex(c) == IsDigit(c) \/ (c >= 97 /\ c <= 102) \/ (c >= 65 /\ c <= 70)

HexVal(c) == IF IsDigit(c) THEN c - 48 ELSE IF c >= 97 THEN c - 87 ELSE c - 55

Expect(t, i, lit) ==
    /\ i + Len(lit) - 1 <= Len(t)
    /\ SubSeq(t, i, i + Len(lit) - 1) = lit

\* The character an escape letter stands for, 0 when it is not an escape.
Unescape(e) ==
    CASE e = 34  -> 34
      [] e = 92  -> 92
      [] e = 47  -> 47
      [] e = 98  -> 8
      [] e = 102 -> 12
      [] e = 110 -> 10
      [] e = 114 -> 13
      [] e = 116 -> 9
      [] OTHER   -> 0

\* Number of consecutive backslashes that end just before position j, none
\* of them before position i.
BackslashRun(t, i, j) ==
    Cardinality({k \in i..(j - 1) : \A m \in k..(j - 1) : t[m] = 92})

\* A backslash that opens an escape sequence of the string starting at i.
Starter(t, i, k) == t[k] = 92 /\ BackslashRun(t, i, k) % 2 = 0

\* Position k is the letter of an escape, or one of the four hex digits
\* after \u.
Escaped(t, i, k) == k > i /\ Starter(t, i, k - 1)

InHex(t, i, k) ==
    \E d \in 1..4 : k - d - 1 >= i /\ t[k - d] = 117 /\ Starter(t, i, k - d - 1)

\* Position of the first unescaped quote at or after i, 0 when there is
\* none.
ClosingQuote(t, i) ==
    LET quotes == {j \in i..Len(t) : t[j] = 34 /\ BackslashRun(t, i, j) % 2 = 0}
    IN  IF quotes = {} THEN 0 ELSE CHOOSE q \in quotes : \A r \in quotes : q <= r

\* A character, or the escape sequence starting at k, is well formed within
\* the string body that ends before position j.
ValidToken(t, j, k) ==
    IF t[k] # 92 THEN t[k] >= 32
    ELSE \/ Unescape(t[k + 1]) # 0
         \/ /\ t[k + 1] = 117
            /\ k + 5 <= j - 1
            /\ \A d \in 2..5 : IsHex(t[k + d])

TokenValue(t, k) ==
    IF t[k] # 92 THEN t[k]
    ELSE IF Unescape(t[k + 1]) # 0 THEN Unescape(t[k + 1])
    ELSE 4096 * HexVal(t[k + 2]) + 256 * HexVal(t[k + 3])
         + 16 * HexVal(t[k + 4]) + HexVal(t[k + 5])

\* The string whose characters and escapes start at the positions tokens.
TokensToString(t, tokens, j) ==
    IF \E k \in tokens : ~ValidToken(t, j, k) THEN Fail
    ELSE [ok |-> TRUE,
          val |-> [n \in 1..Cardinality(tokens) |->
                      TokenValue(t, CHOOSE k \in tokens :
                                        Cardinality({m \in tokens : m <= k}) = n)],
          next |-> j + 1]

StringUpTo(t, i, j) ==
    IF j = 0 THEN Fail
    ELSE TokensToString(t, {k \in i..(j - 1) : ~Escaped(t, i, k) /\ ~InHex(t, i, k)}, j)

\* Body of a JSON string from position i (after the opening quote): the
\* scan to the first unescaped quote, each escape replaced by its character.
ScanString(t, i) == StringUpTo(t, i, ClosingQuote(t, i))

ParseString(t, i) ==
    IF i <= Len(t) /\ t[i] = 34 THEN ScanString(t, i + 1) ELSE Fail

\* First position at or after i that holds no decimal digit.
RECURSIVE ScanDigits(_, _)
ScanDigits(t, i) == IF i <= Len(t) /\ IsDigit(t[i]) THEN ScanDigits(t, i + 1) ELSE i

RECURSIVE DigitsValue(_)
DigitsValue(d) == IF d = <<>> THEN 0
                  ELSE 10 * DigitsValue(SubSeq(d, 1, Len(d) - 1)) + (d[Len(d)] - 48)

\* Value in ten-thousandths of a fraction of at most four digits.
FracValue(d) == DigitsValue(d \o [k \in 1..(4 - Len(d)) |-> 48])

\* Integer part n, fraction digits d ending before position f; val = -1
\* stands for a number that is no multiple of 1/16.
FractionValue(n, d, f) ==
    IF Len(d) <= 4 /\ FracValue(d) % 625 = 0
    THEN [ok |-> TRUE, val |-> Den * n + FracValue(d) \div 625, next |-> f]
    ELSE [ok |-> TRUE, val |-> 0 - 1, next |-> f]

\* The fraction after the point at position e, its digits ending before f.
FractionFrom(t, n, e, f) ==
    IF f = e + 1 THEN Fail ELSE FractionValue(n, SubSeq(t, e + 1, f - 1), f)

\* The number whose integer digits are at i..e-1.
NumberFrom(t, i, e) ==
    IF e = i THEN Fail
    ELSE IF t[i] = 48 /\ e > i + 1 THEN Fail
    ELSE IF e <= Len(t) /\ t[e] = 46
         THEN FractionFrom(t, DigitsValue(SubSeq(t, i, e - 1)), e, ScanDigits(t, e + 1))
    ELSE [ok |-> TRUE, val |-> Den * DigitsValue(SubSeq(t, i, e - 1)), next |-> e]

\* A JSON number at position i, as sixteenths.
ParseNumber(t, i) == NumberFrom(t, i, ScanDigits(t, i))

\* One {"x":..,"y":..,"order":..} object at position i, member by member.
PointEnd(t, px, py, po) ==
    IF ~po.ok \/ ~Expect(t, po.next, <<125>>) THEN Fail
    ELSE [ok |-> TRUE,
          val |-> [x |-> px.val, y |-> py.val,
                   order |-> IF po.val >= 0 /\ po.val % Den = 0
                             THEN po.val \div Den ELSE 0 - 1],
          next |-> po.next + 1]

PointOrder(t, px, py) ==
    IF ~py.ok \/ ~Expect(t, py.next, KeyOrder) THEN Fail
    ELSE PointEnd(t, px, py, ParseNumber(t, py.next + Len(KeyOrder)))

PointY(t, px) ==
    IF ~px.ok \/ ~Expect(t, px.next, KeyY) THEN Fail
    ELSE PointOrder(t, px, ParseNumber(t, px.next + Len(KeyY)))

ParsePoint(t, i) ==
    IF ~Expect(t, i, KeyX) THEN Fail ELSE PointY(t, ParseNumber(t, i + Len(KeyX)))

\* The elements of the clickSequence array from position i, up to "]".
RECURSIVE ParsePoints(_, _, _)
PointsAfter(t, acc, p) ==
    IF ~p.ok THEN Fail
    ELSE IF Expect(t, p.next, <<44>>) THEN ParsePoints(t, p.next + 1, Append(acc, p.val))
    ELSE IF Expect(t, p.next, <<93>>)
         THEN [ok |-> TRUE, val |-> Append(acc, p.val), next |-> p.next + 1]
    ELSE Fail

ParsePoints(t, i, acc) ==
    IF acc = <<>> /\ Expect(t, i, <<93>>) THEN [ok |-> TRUE, val |-> acc, next |-> i + 1]
    ELSE PointsAfter(t, acc, ParsePoint(t, i))

Null == [kind |-> "null", message |-> <<>>, clickSequence |-> <<>>]

Thrown == [kind |-> "throw", message |-> <<>>, clickSequence |-> <<>>]

\* A value that JSON.parse returns and that is no SteganographyData object.
OtherValue == [kind |-> "value", message |-> <<>>, clickSequence |-> <<>>]

\* The object {"message":m,"clickSequence":c} ending at the end of the text.
PayloadEnd(t, m, c) ==
    IF ~c.ok \/ ~Expect(t, c.next, <<125>>) \/ c.next # Len(t) THEN Thrown
    ELSE IF \E k \in 1..Len(c.val) :
               c.val[k].x < 0 \/ c.val[k].y < 0 \/ c.val[k].order < 0
         THEN OtherValue
    ELSE [kind |-> "payload", message |-> m.val, clickSequence |-> c.val]

PayloadAfterMessage(t, m) ==
    IF ~m.ok \/ ~Expect(t, m.next, KeyClickSequence) THEN Thrown
    ELSE PayloadEnd(t, m, ParsePoints(t, m.next + Len(KeyClickSequence), <<>>))

ParsePayload(t) ==
    IF ~Expect(t, 1, KeyMessage) THEN Thrown
    ELSE PayloadAfterMessage(t, ParseString(t, 1 + Len(KeyMessage)))

JSONparse(t) ==
    IF t = <<110, 117, 108, 108>> THEN Null
    ELSE IF t # <<>> /\ ScanDigits(t, 1) = Len(t) + 1 /\ (t[1] # 48 \/ Len(t) = 1)
         THEN OtherValue
    ELSE ParsePayload(t)

(***************************************************************************)
(* encodeMessage  (steganography.ts 29-72)                                 *)
(***************************************************************************)
delimiter == <<1, 1, 1, 1, 1, 1, 1, 1, 1, 1, 1, 1, 1, 1, 1, 0>>

PixelCount(pixels) == Len(pixels) \div 4

\* Serialized payload followed by the delimiter (lines 42-47).
FullBinary(data) == stringToBinary(JSONstringify(data)) \o delimiter

\* Variant: the mask 0xFC instead of 0xFE.
SetLSB_WideMask(byte, bit) == (byte - (byte % 4)) + bit

\* (byte & 0xFE) | bit
SetLSB(byte, bit) == (byte - (byte % 2)) + bit

\* Variant: the capacity test with >= instead of >.
encodeMessage_StrictCapacity(pixels, data) ==
    LET fullBinary == FullBinary(data)
    IN  IF Len(fullBinary) >= PixelCount(pixels)
        THEN [ok |-> FALSE, error |-> "Message too long for this image", pixels |-> pixels]
        ELSE [ok |-> TRUE, error |-> "",
              pixels |-> [k \in 1..Len(pixels) |->
                             IF k % 4 = 1 /\ (k - 1) \div 4 < Len(fullBinary)
                             THEN SetLSB(pixels[k], fullBinary[(k - 1) \div 4 + 1])
                             ELSE pixels[k]]]

\* Variant: the bits that fit are written before the rejection.
encodeMessage_PartialWrite(pixels, data) ==
    LET fullBinary == FullBinary(data)
    IN  [ok |-> Len(fullBinary) <= PixelCount(pixels),
         error |-> IF Len(fullBinary) > PixelCount(pixels)
                   THEN "Message too long for this image" ELSE "",
         pixels |-> [k \in 1..Len(pixels) |->
                        IF k % 4 = 1 /\ (k - 1) \div 4 < Len(fullBinary)
                        THEN SetLSB(pixels[k], fullBinary[(k - 1) \div 4 + 1])
                        ELSE pixels[k]]]

\* The Promise settles with ok (resolve) or with the error (reject); pixels
\* is the buffer the canvas holds afterwards.
encodeMessage(pixels, data) ==
    LET fullBinary == FullBinary(data)
    IN  IF Len(fullBinary) > PixelCount(pixels)
        THEN [ok |-> FALSE, error |-> "Message too long for this image", pixels |-> pixels]
        ELSE [ok |-> TRUE, error |-> "",
              pixels |-> [k \in 1..Len(pixels) |->
                             IF k % 4 = 1 /\ (k - 1) \div 4 < Len(fullBinary)
                             THEN SetLSB(pixels[k], fullBinary[(k - 1) \div 4 + 1])
                             ELSE pixels[k]]]

(***************************************************************************)
(* decodeMessage  (steganography.ts 75-112)                                *)
(***************************************************************************)
\* pixels[i * 4] & 1 for every pixel i.
RedLSBs(pixels) == [i \in 1..PixelCount(pixels) |-> pixels[4 * i - 3] % 2]

\* Pixel positions (1-based) at which binaryData.endsWith(delimiter) holds
\* when every pixel is appended.
DelimiterEnds(bits) ==
    {i \in 16..Len(bits) : \A k \in 1..16 : bits[i - 16 + k] = delimiter[k]}

\* Variant: no break, the last position at which the delimiter ends.
FirstDelimiterEnd_Last(bits) ==
    LET ends == DelimiterEnds(bits)
    IN  IF ends = {} THEN 0 ELSE CHOOSE i \in ends : \A j \in ends : i >= j

\* 0 when the loop runs to the end, else the position at which it breaks.
FirstDelimiterEnd(bits) ==
    LET ends == DelimiterEnds(bits)
    IN  IF ends = {} THEN 0 ELSE CHOOSE i \in ends : \A j \in ends : i <= j

\* binaryData after the loop (lines 83-97).
ExtractBinary(pixels) ==
    LET bits == RedLSBs(pixels)
        e == FirstDelimiterEnd(bits)
    IN  IF e = 0 THEN bits ELSE SubSeq(bits, 1, e - 16)

\* Lines 101-107: binaryToString, the empty-text test and JSON.parse; kind
\* "throw" is the SyntaxError of JSON.parse.
DecodeString(jsonString) ==
    IF jsonString = <<>> THEN Null ELSE JSONparse(jsonString)

DecodeBinary(binaryData) ==
    IF binaryData = <<>> THEN Null ELSE DecodeString(binaryToString(binaryData))

\* The body of the try block (lines 77-107).
DecodeBody(pixels) == DecodeBinary(ExtractBinary(pixels))

\* catch (error) { return null }
CatchNull(r) == IF r.kind = "throw" THEN Null ELSE r

\* Variant: no try/catch around the body.
decodeMessage_NoCatch(pixels) == DecodeBody(pixels)

\* try { ... } catch (error) { return null }
decodeMessage(pixels) == CatchNull(DecodeBody(pixels))

(***************************************************************************)
(* Inputs of the codec specification.                                      *)
(***************************************************************************)
\* Code units a message is drawn from: A, the double quote (escaped by
\* JSON.stringify), the Latin-1 letter U+00FF (bits 11111111) and the euro
\* sign U+20AC (wider than 8 bits).
Alphabet == {65, 34, 255, 8364}

RECURSIVE SeqsUpTo(_, _)
SeqsUpTo(S, n) ==
    IF n = 0 THEN {<<>>}
    ELSE LET shorter == SeqsUpTo(S, n - 1)
         IN  shorter \cup {Append(m, c) : m \in {q \in shorter : Len(q) = n - 1}, c \in S}

\* Every message of at most two characters, and the runs of one character
\* up to MaxMsgLen.
Messages ==
    SeqsUpTo(Alphabet, 2)
        \cup {[i \in 1..n |-> c] : c \in Alphabet, n \in 1..MaxMsgLen}

Pt(x, y, order) == [x |-> x, y |-> y, order |-> order]

\* Click sequences of 3 and 4 points, coordinates in sixteenths of the
\* canvas width and height.
Seq3 == <<Pt(4, 4, 0), Pt(12, 4, 1), Pt(8, 12, 2)>>

Seq4 == <<Pt(0, 16, 0), Pt(5, 3, 1), Pt(16, 0, 2), Pt(8, 8, 3)>>

ClickSeqs == {Seq3, Seq4}

Payloads == [message : Messages, clickSequence : ClickSeqs]

\* Carrier images: every byte 255, or a ramp of byte values.
Fills == {"white", "ramp"}

FillBuffer(fill, count) ==
    [k \in 1..(4 * count) |->
        IF fill = "white" THEN 255 ELSE (7 * k + 3) % 256]

\* A buffer whose first pixels carry the given bits in their red LSB.
WithStream(buf, bits) ==
    [k \in 1..Len(buf) |->
        IF k % 4 = 1 /\ (k - 1) \div 4 < Len(bits)
        THEN 2 * (buf[k] \div 2) + bits[(k - 1) \div 4 + 1]
        ELSE buf[k]]

\* Texts found in images that no call of encodeMessage produced.
RawTexts ==
    { <<49>>,                                               \* 1
      <<110, 117, 108, 108>>,                               \* null
      <<123>>,                                              \* {
      <<>>,
      JSONstringify([message |-> <<65>>, clickSequence |-> Seq3]) }

DefaultData == [message |-> <<65>>, clickSequence |-> Seq3]

NoResult == [kind |-> "none", message |-> <<>>, clickSequence |-> <<>>]

(***************************************************************************)
(* Geometry of the matcher: ImageCanvas sizes its canvas from the image    *)
(* (EncodeMode.tsx 454-459), reference points are denormalized to canvas   *)
(* units and compared with the click (steganography.ts 130-153).           *)
(***************************************************************************)
maxWidth == 600

maxHeight == 400

\* ratio = Math.min(maxWidth / w, maxHeight / h); canvas.width = w * ratio,
\* truncated to the integer the canvas attribute holds.
CanvasWidth(w, h) ==
    IF maxWidth * h <= maxHeight * w THEN maxWidth ELSE (w * maxHeight) \div h

CanvasHeight(w, h) ==
    IF maxWidth * h <= maxHeight * w THEN (h * maxWidth) \div w ELSE maxHeight

\* point.x * canvasWidth, point.y * canvasHeight for coordinates in
\* sixteenths.
denormalizeClickPoint(point, canvasWidth, canvasHeight) ==
    [x |-> (point.x * canvasWidth) \div Den, y |-> (point.y * canvasHeight) \div Den]

DefaultTolerance == 30

\* Variant: distance < tolerance.
isClickNearPoint_Strict(clickX, clickY, targetX, targetY, tolerance) ==
    (clickX - targetX) * (clickX - targetX) + (clickY - targetY) * (clickY - targetY)
        < tolerance * tolerance

\* Math.sqrt(dx^2 + dy^2) <= tolerance, on integer canvas units.
isClickNearPoint(clickX, clickY, targetX, targetY, tolerance) ==
    (clickX - targetX) * (clickX - targetX) + (clickY - targetY) * (clickY - targetY)
        <= tolerance * tolerance

MatcherTolerance == 25

(***************************************************************************)
(* Images the decode UI can be given: images written by encodeMessage and  *)
(* one that carries no payload.  All are 40 x 40 pixels, which gives a     *)
(* 400 x 400 canvas.                                                       *)
(***************************************************************************)
ImageWidth == 40

ImageHeight == 40

Images == {"A", "B", "plain"}

\* A sequence that reads the same in both directions.
SeqPal == <<Pt(4, 4, 0), Pt(12, 12, 1), Pt(4, 4, 2)>>

\* "C" is a further image file, with a reference sequence of four points.
PayloadOf(img) ==
    IF img = "A" THEN [message |-> <<65>>, clickSequence |-> Seq3]
    ELSE IF img = "C" THEN [message |-> <<67>>, clickSequence |-> Seq4]
    ELSE [message |-> <<66>>, clickSequence |-> SeqPal]

ImagePixels(img) ==
    IF img = "plain" THEN FillBuffer("ramp", ImageWidth * ImageHeight)
    ELSE encodeMessage(FillBuffer("ramp", ImageWidth * ImageHeight), PayloadOf(img)).pixels

\* decodeMessage(canvas) of the canvas an image was drawn to
\* (EncodeMode.tsx 248-256 and 298-306).
DecodedOf == [img \in Images |-> decodeMessage(ImagePixels(img))]

CanvasW == CanvasWidth(ImageWidth, ImageHeight)

CanvasH == CanvasHeight(ImageWidth, ImageHeight)

Denorm(point) == denormalizeClickPoint(point, CanvasW, CanvasH)

\* Offsets of the clicks tried around the expected point: at distance
\* exactly 25, and just beyond it.
Offsets == {<<15, 20>>, <<25, 1>>}

(***************************************************************************)
(* State.                                                                  *)
(***************************************************************************)
VARIABLES
    data,        \* codec: the SteganographyData handed to encodeMessage
    original,    \* codec: the pixel buffer before encodeMessage
    pixels,      \* codec: the pixel buffer (imageData.data)
    encoded,     \* codec: "none", "resolved" or "rejected"
    encodeError, \* codec: message of the Error the Promise rejected with
    decoded,     \* codec: value decodeMessage returned, NoResult before
    pc,          \* codec: "start", "encoded", "done"; "ui" in the UI
    files,               \* the image files at hand: for each, what
                         \* decodeMessage returns for its canvas
    message,             \* EncodeMode: the secret message, '' is <<>>
    encImage,            \* EncodeMode: image, "none" for null
    encClickSequence,    \* EncodeMode: clickSequence
    isSettingSequence,   \* EncodeMode
    encodedImage,        \* EncodeMode: "none" for null, "blob"
    encoding,            \* outcomes of the encodeMessage calls still awaited
    handed,              \* history: the data last handed to encodeMessage
    tracking,            \* history: whether callbacks are followed from
                         \* their click to their run (tracked, abandoned)
    image,               \* DecodeMode: the loaded image, "none" for null
    clickSequence,       \* DecodeMode: the reference sequence
    isVerifying,         \* DecodeMode
    verificationSuccess, \* DecodeMode
    decodedMessage,      \* DecodeMode: '' is <<>>
    attempts,            \* DecodeMode: failed-attempt counter
    currentStep,         \* ImageCanvas
    verificationAttempts,\* ImageCanvas: the attempt log; x and y stand for
                         \* x / canvas.width and y / canvas.height
    timers,              \* pending setTimeout callbacks, oldest first, each
                         \* with the state its closure captured
    verifiedFor,         \* history: the image whose session signalled
                         \* success since the last load or reset
    sessionClicks,       \* history: clicks handed to the matcher since
                         \* Start Authentication, 0 outside a session
    sessionExact,        \* history: those clicks are the reference points
                         \* in order, against an unchanged reference
    sessionReverse,      \* history: ... the reference points in reverse
    sessionTimers,       \* history: pending callbacks scheduled by the
                         \* session in progress against the loaded image
    failedSessions       \* history: sessions against the loaded image that
                         \* a Failed signal ended, since the last load,
                         \* success or reset

codecVars == <<data, original, pixels, encoded, encodeError, decoded, pc>>

decodeVars ==
    <<image, clickSequence, isVerifying, verificationSuccess, decodedMessage, attempts>>

canvasVars == <<currentStep, verificationAttempts>>

historyVars ==
    <<verifiedFor, sessionClicks, sessionExact, sessionReverse, sessionTimers,
      failedSessions>>

uiVars == <<decodeVars, canvasVars, timers, historyVars>>

encodeVars ==
    <<message, encImage, encClickSequence, isSettingSequence, encodedImage, encoding, handed>>

fixedVars == <<codecVars, files, encodeVars, tracking>>

vars == <<fixedVars, uiVars>>

NoData == [message |-> <<>>, clickSequence |-> <<>>]

\* useState initial values of EncodeMode (13-17).
EncodeInit ==
    /\ message = <<>>
    /\ encImage = "none"
    /\ encClickSequence = <<>>
    /\ isSettingSequence = FALSE
    /\ encodedImage = "none"
    /\ encoding = {}
    /\ handed = NoData

\* useState initial values of DecodeMode (227-232) and ImageCanvas (443-444).
UIInit ==
    /\ EncodeInit
    /\ image = "none"
    /\ clickSequence = <<>>
    /\ isVerifying = FALSE
    /\ verificationSuccess = FALSE
    /\ decodedMessage = <<>>
    /\ attempts = 0
    /\ currentStep = 0
    /\ verificationAttempts = <<>>
    /\ timers = <<>>
    /\ verifiedFor = "none"
    /\ sessionClicks = 0
    /\ sessionExact = FALSE
    /\ sessionReverse = FALSE
    /\ sessionTimers = 0
    /\ failedSessions = 0

(***************************************************************************)
(* Codec specification: a payload and a carrier are drawn, encodeMessage   *)
(* writes the payload, decodeMessage reads the buffer back; decodeMessage  *)
(* is also applied to carriers that were never encoded.                    *)
(***************************************************************************)
CodecInit ==
    /\ UIInit
    /\ encoded = "none"
    /\ encodeError = ""
    /\ decoded = NoResult
    /\ pc = "start"
    /\ files = <<>>
    /\ tracking = FALSE
    /\ \/ \E d \in Payloads, f \in Fills, slack \in (0 - 1)..MaxSlack :
             /\ data = d
             /\ pixels = FillBuffer(f, Len(FullBinary(d)) + slack)
       \/ \E t \in RawTexts, f \in Fills, term \in BOOLEAN, pad \in 0..MaxSlack :
             /\ data = DefaultData
             /\ pixels = WithStream(
                    FillBuffer(f, 8 * Len(t) + (IF term THEN 16 ELSE 0) + pad),
                    stringToBinary(t) \o (IF term THEN delimiter ELSE <<>>))
    /\ original = pixels

\* await encodeMessage(canvas, data)
Encode ==
    /\ pc = "start"
    /\ LET r == encodeMessage(pixels, data)
       IN  /\ pixels' = r.pixels
           /\ encoded' = IF r.ok THEN "resolved" ELSE "rejected"
           /\ encodeError' = r.error
    /\ pc' = "encoded"
    /\ UNCHANGED <<data, original, decoded, files, encodeVars, tracking, uiVars>>

\* decodeMessage(canvas)
Decode ==
    /\ pc \in {"start", "encoded"}
    /\ decoded' = decodeMessage(pixels)
    /\ pc' = "done"
    /\ UNCHANGED <<data, original, pixels, encoded, encodeError, files, encodeVars, tracking, uiVars>>

CodecNext == Encode \/ Decode

CodecSpec == CodecInit /\ [][CodecNext]_vars

(***************************************************************************)
(* Encode UI: EncodeMode (EncodeMode.tsx 12-215).  The canvas of its        *)
(* ImageCanvas hands every click to handleCanvasClick (524-525).           *)
(***************************************************************************)
EncodeImages == {"small", "large"}

\* Width and height of the uploaded image: one too small for any payload,
\* one large enough.
EncodeImageSide(img) == IF img = "small" THEN 8 ELSE ImageWidth

EncodeMessages == {<<>>, <<65>>}

\* Canvas coordinates of the clicks tried.
EncodeClicks == {<<100, 100>>, <<300, 200>>}

\* x / canvasWidth, y / canvasHeight, in sixteenths.
normalizeClickPoint(x, y, canvasWidth, canvasHeight, order) ==
    Pt((x * Den) \div canvasWidth, (y * Den) \div canvasHeight, order)

\* Variant: clickSequence.length > 4.
MaxPointsReached_Late(n) == n > 4

\* Line 40: clickSequence.length >= 4.
MaxPointsReached(n) == n >= 4

\* img.onload of handleImageUpload (21-32).
EncodeImageLoaded(img) ==
    /\ encImage' = img
    /\ encClickSequence' = <<>>
    /\ encodedImage' = "none"
    /\ UNCHANGED <<message, isSettingSequence, encoding, handed, codecVars, files, tracking, uiVars>>

\* onChange of the message field.
setMessage(m) ==
    /\ m # message
    /\ message' = m
    /\ UNCHANGED <<encImage, encClickSequence, isSettingSequence, encodedImage, encoding,
                   handed, codecVars, files, tracking, uiVars>>

\* Set Click Points (51-55), shown while not setting (148-156).
startSettingSequence ==
    /\ encImage # "none"
    /\ ~isSettingSequence
    /\ encClickSequence' = <<>>
    /\ isSettingSequence' = TRUE
    /\ UNCHANGED <<message, encImage, encodedImage, encoding, handed, codecVars, files,
                   tracking, uiVars>>

\* Finish (57-64), shown while setting and enabled from 3 points on (162).
finishSettingSequence ==
    /\ encImage # "none"
    /\ isSettingSequence
    /\ Len(encClickSequence) >= 3
    /\ isSettingSequence' = FALSE
    /\ UNCHANGED <<message, encImage, encClickSequence, encodedImage, encoding, handed,
                   codecVars, files, tracking, uiVars>>

\* handleCanvasClick (34-49).
handleCanvasClick(x, y) ==
    /\ encImage # "none"
    /\ isSettingSequence
    /\ ~MaxPointsReached(Len(encClickSequence))
    /\ encClickSequence' =
          Append(encClickSequence,
                 normalizeClickPoint(x, y,
                     CanvasWidth(EncodeImageSide(encImage), EncodeImageSide(encImage)),
                     CanvasHeight(EncodeImageSide(encImage), EncodeImageSide(encImage)),
                     Len(encClickSequence)))
    /\ UNCHANGED <<message, encImage, isSettingSequence, encodedImage, encoding, handed,
                   codecVars, files, tracking, uiVars>>

\* handleEncode (66-82) up to the await: the button is shown from 3 points
\* on while not setting (180) and enabled with a message, an image and no
\* encoded image (184).
handleEncode ==
    /\ Len(encClickSequence) >= 3
    /\ ~isSettingSequence
    /\ encodedImage = "none"
    /\ encImage # "none"
    /\ message # <<>>
    /\ handed' = [message |-> message, clickSequence |-> encClickSequence]
    /\ encoding' = encoding \cup
          {IF encodeMessage(FillBuffer("white",
                                EncodeImageSide(encImage) * EncodeImageSide(encImage)),
                            handed').ok
           THEN "resolved" ELSE "rejected"}
    /\ UNCHANGED <<message, encImage, encClickSequence, isSettingSequence, encodedImage,
                   codecVars, files, tracking, uiVars>>

\* handleEncode after the await (84-89): setEncodedImage(blob), or the catch.
EncodeSettled(r) ==
    /\ r \in encoding
    /\ encoding' = encoding \ {r}
    /\ encodedImage' = IF r = "resolved" THEN "blob" ELSE encodedImage
    /\ UNCHANGED <<message, encImage, encClickSequence, isSettingSequence, handed,
                   codecVars, files, tracking, uiVars>>

\* Start New Encoding (208): resetAll (104-111).
EncodeResetAll ==
    /\ encodedImage # "none"
    /\ message' = <<>>
    /\ encImage' = "none"
    /\ encClickSequence' = <<>>
    /\ isSettingSequence' = FALSE
    /\ encodedImage' = "none"
    /\ UNCHANGED <<encoding, handed, codecVars, files, tracking, uiVars>>

EncodeUIInit ==
    /\ UIInit
    /\ data = DefaultData
    /\ original = <<>>
    /\ pixels = <<>>
    /\ encoded = "none"
    /\ encodeError = ""
    /\ decoded = NoResult
    /\ pc = "encodeUI"
    /\ files = <<>>
    /\ tracking = FALSE

EncodeUINext ==
    \/ \E img \in EncodeImages : EncodeImageLoaded(img)
    \/ \E m \in EncodeMessages : setMessage(m)
    \/ startSettingSequence
    \/ finishSettingSequence
    \/ \E c \in EncodeClicks : handleCanvasClick(c[1], c[2])
    \/ handleEncode
    \/ \E r \in {"resolved", "rejected"} : EncodeSettled(r)
    \/ EncodeResetAll

EncodeUISpec == EncodeUIInit /\ [][EncodeUINext]_vars

(***************************************************************************)
(* Decode UI: DecodeMode (EncodeMode.tsx 226-418) with its ImageCanvas     *)
(* (433-591).  Each action is one event handler or timer callback together *)
(* with the render and the effects that follow it; state updates of one    *)
(* handler are applied as one batch.  Switching the application mode       *)
(* (Index.tsx), which discards the component, is not modelled.             *)
(***************************************************************************)
\* The ImageCanvas is rendered (346): its state exists only while mounted.
Mounted == image # "none" /\ Len(clickSequence) > 0

\* data && data.clickSequence (257-262)
SequenceOf(d) == IF d.kind = "payload" THEN d.clickSequence ELSE <<>>

\* data && data.message (307-311): the message revealMessage surfaces, given
\* the one shown so far.
RevealedMessage(img, shown) ==
    IF img = "none" THEN shown
    ELSE IF files[img].kind = "payload" /\ files[img].message # <<>>
         THEN files[img].message
    ELSE shown

\* The reference reads the same in both directions, each point within the
\* tolerance of the point at the mirrored position.
Mirror(seq) ==
    \A k \in 1..Len(seq) :
        isClickNearPoint(Denorm(seq[Len(seq) + 1 - k]).x, Denorm(seq[Len(seq) + 1 - k]).y,
                         Denorm(seq[k]).x, Denorm(seq[k]).y, MatcherTolerance)

\* Variant: the click may be near any point of the sequence.
IsCorrect_AnyPoint(seq, step, x, y) ==
    \E k \in 1..Len(seq) :
        isClickNearPoint(x, y, Denorm(seq[k]).x, Denorm(seq[k]).y, MatcherTolerance)

\* Lines 532-535: the click against the point at the current step.
IsCorrect(seq, step, x, y) ==
    isClickNearPoint(x, y, Denorm(seq[step + 1]).x, Denorm(seq[step + 1]).y,
                     MatcherTolerance)

\* Variant: newStep >= clickSequence.length - 1.
CompletesSequence_Early(newStep, n) == newStep >= n - 1

\* Variant: newStep > clickSequence.length.
CompletesSequence_Late(newStep, n) == newStep > n

\* Line 549: newStep >= clickSequence.length.
CompletesSequence(newStep, n) == newStep >= n

successDelay == 500

failureDelay == 1000

Delay(t) == IF t.kind = "success" THEN successDelay ELSE failureDelay

\* A callback can run only after every callback that was scheduled earlier
\* with a delay no longer than its own.
CanFire(i) == \A j \in 1..(i - 1) : Delay(timers[j]) > Delay(timers[i])

RemoveAt(q, i) == SubSeq(q, 1, i - 1) \o SubSeq(q, i + 1, Len(q))

\* The callback of line 550 and the one of lines 553-557, with what the
\* closure of onVerificationComplete captured at the click: attempts (286)
\* and image (296).  The other fields are history: abandoned says that
\* Reset ended the session of the click, raised that a callback of the
\* session of the click has already raised the failed-attempt counter,
\* tracked marks the followed callback.
SuccessTimer(rev) ==
    [kind |-> "success", attempts |-> attempts, image |-> image,
     abandoned |-> FALSE, raised |-> FALSE, reverse |-> rev,
     mirror |-> Mirror(clickSequence), tracked |-> FALSE]

FailureTimer(t) ==
    [kind |-> "failure", attempts |-> attempts, image |-> image,
     abandoned |-> FALSE, raised |-> FALSE, reverse |-> FALSE, mirror |-> FALSE,
     tracked |-> t]

TrackedPending == \E i \in 1..Len(timers) : timers[i].tracked

\* The callbacks scheduled by the session in progress are the last
\* sessionTimers pending ones: a callback that runs ends the session.
OfSession(i) == i > Len(timers) - sessionTimers

\* The pending callbacks once Reset has ended the session in progress; the
\* mark is history, kept where callbacks are followed.
Abandon(q) ==
    [k \in 1..Len(q) |->
        IF tracking /\ OfSession(k) THEN [q[k] EXCEPT !.abandoned = TRUE] ELSE q[k]]

\* The pending callbacks once callback i has run: when it is a failure
\* callback of the session in progress that raises the counter, the other
\* callbacks of that session are marked (history, kept where callbacks are
\* followed).
AfterRun(q, i) ==
    IF tracking /\ OfSession(i) /\ q[i].kind = "failure" /\ q[i].attempts < 2
    THEN RemoveAt([k \in 1..Len(q) |->
                      IF OfSession(k) THEN [q[k] EXCEPT !.raised = TRUE] ELSE q[k]], i)
    ELSE RemoveAt(q, i)

\* Clicks tried in a state: the expected reference point (the last one once
\* every step is matched), the reference point that continues the reverse
\* order and, for the first click after the log was cleared, points around
\* the expected one.
ClickChoices ==
    {Denorm(clickSequence[k]) :
        k \in {j \in 1..Len(clickSequence) :
                  \/ j = currentStep + 1
                  \/ j = Len(clickSequence) - sessionClicks
                  \/ currentStep >= Len(clickSequence) /\ j = Len(clickSequence)}}
        \cup (IF verificationAttempts = <<>> /\ currentStep < Len(clickSequence)
              THEN {c \in {[x |-> Denorm(clickSequence[currentStep + 1]).x + o[1],
                            y |-> Denorm(clickSequence[currentStep + 1]).y + o[2]] : o \in Offsets} :
                        c.x <= CanvasW /\ c.y <= CanvasH}
              ELSE {})

\* img.onload of handleImageUpload (240-263).
ImageLoaded(img) ==
    /\ image' = img
    /\ clickSequence' = SequenceOf(files[img])
    /\ verificationSuccess' = FALSE
    /\ decodedMessage' = <<>>
    /\ attempts' = 0
    /\ IF Mounted /\ SequenceOf(files[img]) # <<>>
       THEN UNCHANGED canvasVars
       ELSE currentStep' = 0 /\ verificationAttempts' = <<>>
    /\ sessionTimers' = 0
    /\ verifiedFor' = "none"
    /\ sessionClicks' = 0
    /\ sessionExact' = FALSE
    /\ sessionReverse' = FALSE
    /\ failedSessions' = 0
    /\ UNCHANGED <<isVerifying, timers, fixedVars>>

\* Start Authentication (267-275), shown while neither verifying nor
\* verified (356).
startVerification ==
    /\ Mounted
    /\ ~isVerifying
    /\ ~verificationSuccess
    /\ isVerifying' = TRUE
    /\ verificationSuccess' = FALSE
    /\ sessionClicks' = 0
    /\ sessionExact' = TRUE
    /\ sessionReverse' = TRUE
    /\ sessionTimers' = 0
    /\ UNCHANGED <<image, clickSequence, decodedMessage, attempts, canvasVars, timers,
                   verifiedFor, failedSessions, fixedVars>>

\* The Reset button (366-375): setIsVerifying(false), then the effect of
\* lines 566-570 runs resetVerification.
resetVerification ==
    /\ Mounted
    /\ isVerifying
    /\ isVerifying' = FALSE
    /\ currentStep' = 0
    /\ verificationAttempts' = <<>>
    /\ sessionClicks' = 0
    /\ sessionExact' = FALSE
    /\ sessionReverse' = FALSE
    /\ timers' = Abandon(timers)
    /\ sessionTimers' = 0
    /\ UNCHANGED <<image, clickSequence, verificationSuccess, decodedMessage, attempts,
                   verifiedFor, failedSessions, fixedVars>>

\* handleCanvasClick (508-527) handing the click to handleVerificationClick
\* (529-559).
handleVerificationClick(x, y) ==
    /\ Mounted
    /\ isVerifying
    /\ sessionClicks' = Min(sessionClicks + 1, Len(clickSequence) + 1)
    /\ sessionExact' =
          /\ sessionExact
          /\ sessionClicks < Len(clickSequence)
          /\ [x |-> x, y |-> y] = Denorm(clickSequence[sessionClicks + 1])
    /\ sessionReverse' =
          /\ sessionReverse
          /\ sessionClicks < Len(clickSequence)
          /\ [x |-> x, y |-> y] = Denorm(clickSequence[Len(clickSequence) - sessionClicks])
    /\ IF currentStep >= Len(clickSequence)
       THEN UNCHANGED <<canvasVars, timers>>
       ELSE /\ verificationAttempts' =
                  Append(verificationAttempts, [x |-> x, y |-> y, order |-> currentStep])
            /\ IF IsCorrect(clickSequence, currentStep, x, y)
               THEN /\ currentStep' = currentStep + 1
                    /\ IF CompletesSequence(currentStep + 1, Len(clickSequence))
                       THEN /\ Len(timers) < MaxTimers
                            /\ timers' = Append(timers, SuccessTimer(sessionReverse'))
                       ELSE UNCHANGED timers
               ELSE /\ Len(timers) < MaxTimers
                    /\ \E t \in BOOLEAN :
                          /\ t => tracking /\ ~TrackedPending
                          /\ timers' = Append(timers, FailureTimer(t))
                    /\ UNCHANGED currentStep
    /\ sessionTimers' = sessionTimers + Len(timers') - Len(timers)
    /\ UNCHANGED <<decodeVars, verifiedFor, failedSessions, fixedVars>>

\* resetAll (314-322).
resetAll ==
    /\ image' = "none"
    /\ clickSequence' = <<>>
    /\ isVerifying' = FALSE
    /\ verificationSuccess' = FALSE
    /\ decodedMessage' = <<>>
    /\ attempts' = 0

\* The callback of line 550: handleVerificationComplete(true) (277-283) with
\* revealMessage (295-312), both of the render of the click.
SuccessCallback(i) ==
    /\ timers[i].kind = "success"
    /\ isVerifying' = FALSE
    /\ verificationSuccess' = TRUE
    /\ decodedMessage' = RevealedMessage(timers[i].image, decodedMessage)
    /\ verifiedFor' = timers[i].image
    /\ failedSessions' = 0
    /\ UNCHANGED <<image, clickSequence, attempts>>

\* Variant: the callback resets the matcher and signals nothing.
FailureCallback_NoSignal(i) ==
    /\ timers[i].kind = "failure"
    /\ UNCHANGED <<decodeVars, verifiedFor, failedSessions>>

\* The callback of lines 553-557: the matcher is reset and
\* handleVerificationComplete(false) (277-293) of the render of the click
\* runs; setAttempts adds to the current counter, the lockout test reads
\* the captured one.
FailureCallback(i) ==
    /\ timers[i].kind = "failure"
    /\ IF timers[i].attempts >= 2
       THEN resetAll /\ verifiedFor' = "none"
       ELSE /\ isVerifying' = FALSE
            /\ attempts' = attempts + 1
            /\ UNCHANGED <<image, clickSequence, verificationSuccess, decodedMessage,
                           verifiedFor>>
    /\ failedSessions' =
          IF OfSession(i)
          THEN failedSessions + 1
          ELSE failedSessions

\* A pending setTimeout callback runs.  isVerifying is false afterwards, so
\* the matcher is reset (554-555, or the effect of 566-570).
TimerFire(i) ==
    /\ i \in 1..Len(timers)
    /\ CanFire(i)
    /\ \/ SuccessCallback(i)
       \/ FailureCallback(i)
    /\ timers' = AfterRun(timers, i)
    /\ sessionTimers' = 0
    /\ currentStep' = 0
    /\ verificationAttempts' = <<>>
    /\ sessionClicks' = 0
    /\ sessionExact' = FALSE
    /\ sessionReverse' = FALSE
    /\ UNCHANGED fixedVars

\* Decode Another Image (410): resetAll.
DecodeAnother ==
    /\ verificationSuccess
    /\ decodedMessage # <<>>
    /\ resetAll
    /\ currentStep' = 0
    /\ verificationAttempts' = <<>>
    /\ verifiedFor' = "none"
    /\ failedSessions' = 0
    /\ sessionClicks' = 0
    /\ sessionExact' = FALSE
    /\ sessionReverse' = FALSE
    /\ sessionTimers' = 0
    /\ UNCHANGED <<timers, fixedVars>>

Init ==
    /\ UIInit
    /\ data = DefaultData
    /\ original = <<>>
    /\ pixels = <<>>
    /\ encoded = "none"
    /\ encodeError = ""
    /\ decoded = NoResult
    /\ pc = "ui"
    /\ files = DecodedOf
    /\ tracking = FALSE

Next ==
    \/ \E img \in DOMAIN files : ImageLoaded(img)
    \/ startVerification
    \/ resetVerification
    \/ \E c \in ClickChoices : handleVerificationClick(c.x, c.y)
    \/ \E i \in 1..MaxTimers : TimerFire(i)
    \/ DecodeAnother

Spec == Init /\ [][Next]_vars

\* setTimeout callbacks are never cancelled: each pending one runs.
FairSpec == Spec /\ WF_vars(\E i \in 1..MaxTimers : TimerFire(i))

\* The matcher with one image file at hand, callbacks followed.  A pending
\* callback runs once its delay has elapsed, whatever is scheduled after it.
MatcherInit ==
    /\ UIInit
    /\ data = DefaultData
    /\ original = <<>>
    /\ pixels = <<>>
    /\ encoded = "none"
    /\ encodeError = ""
    /\ decoded = NoResult
    /\ pc = "ui"
    /\ files = [img \in {"A"} |-> decodeMessage(ImagePixels(img))]
    /\ tracking = TRUE

MatcherSpec ==
    MatcherInit /\ [][Next]_vars /\ \A i \in 1..MaxTimers : WF_vars(TimerFire(i))

\* The decode UI with two image files at hand whose reference sequences
\* have four and three points.
UploadInit ==
    /\ UIInit
    /\ data = DefaultData
    /\ original = <<>>
    /\ pixels = <<>>
    /\ encoded = "none"
    /\ encodeError = ""
    /\ decoded = NoResult
    /\ pc = "ui"
    /\ files = [img \in {"A", "C"} |-> decodeMessage(ImagePixels(img))]
    /\ tracking = FALSE

UploadSpec == UploadInit /\ [][Next]_vars

(***************************************************************************)
(* Properties of the codec (checked under CodecSpec).                      *)
(***************************************************************************)
AsPayload(d) == [kind |-> "payload", message |-> d.message, clickSequence |-> d.clickSequence]

\* C1: round trip.  Whenever encodeMessage succeeded on a buffer with at
\* least as many pixels as the payload bits plus the 16 terminator bits,
\* decodeMessage of the written buffer returns the original payload (same
\* message, same click sequence).
C1_RoundTrip ==
    (pc = "done" /\ encoded = "resolved"
        /\ PixelCount(original) >= Len(FullBinary(data)))
    => decoded = AsPayload(data)

\* C2: capacity boundary.  encodeMessage succeeds exactly when the bit
\* string (payload bits plus terminator) needs at most pixelCount bits: it
\* succeeds at exactly pixelCount bits and is rejected with 'Message too
\* long for this image' at pixelCount + 1 bits.
C2_CapacityBoundary ==
    encoded # "none" =>
        /\ (Len(FullBinary(data)) <= PixelCount(original)) <=> (encoded = "resolved")
        /\ Len(FullBinary(data)) = PixelCount(original) => encoded = "resolved"
        /\ Len(FullBinary(data)) = PixelCount(original) + 1 =>
              (encoded = "rejected" /\ encodeError = "Message too long for this image")

C2_Witness ==
    /\ encoded = "resolved"
    /\ Len(FullBinary(data)) = PixelCount(original)

\* C3: a buffer in which no position of the red-channel LSB stream
\* completes the terminator decodes to the absent result null.
C3_NoTerminatorGivesNull ==
    (pc = "done" /\ DelimiterEnds(RedLSBs(pixels)) = {}) => decoded = Null

C10_OnlyRedLSBsWritten ==
    encoded = "resolved" =>
        LET stream == FullBinary(data)
        IN  /\ Len(pixels) = Len(original)
            /\ \A k \in 1..Len(pixels) :
                  IF k % 4 = 1 /\ (k - 1) \div 4 < Len(stream)
                  THEN /\ pixels[k] \div 2 = original[k] \div 2
                       /\ pixels[k] % 2 = stream[(k - 1) \div 4 + 1]
                  ELSE pixels[k] = original[k]

C10_Witness ==
    /\ encoded = "resolved"
    /\ PixelCount(original) > Len(FullBinary(data))
    /\ \E k \in 1..Len(pixels) : pixels[k] # original[k]
    /\ \E k \in 1..Len(pixels) : k % 4 = 1 /\ original[k] \div 2 # 0


\* C11: after a call that failed the capacity check the pixel buffer is
\* the buffer from before the call.
C11_NoPartialWrite ==
    encoded = "rejected" => pixels = original

\* A rejected call on a carrier whose red LSBs differ from the payload bits.
C11_Witness ==
    /\ encoded = "rejected"
    /\ encodeError = "Message too long for this image"
    /\ \E i \in 1..PixelCount(original) :
          original[4 * i - 3] % 2 # FullBinary(data)[i]

\* The buffer with the four bytes of pixel p (1-based) set to v.
SetPixel(px, p, v) ==
    [k \in 1..Len(px) |-> IF (k - 1) \div 4 = p - 1 THEN v ELSE px[k]]

\* The pixels after pixel e that are overwritten: the MaxLater next ones and
\* the MaxLater last ones.
LaterPixels(px, e) ==
    {p \in (e + 1)..PixelCount(px) : p <= e + MaxLater \/ p > PixelCount(px) - MaxLater}

\* What was decoded is what the bits before the delimiter ending at pixel
\* e give, it is also the result for the first e pixels alone, and it stays
\* the result when any one later pixel is overwritten.
ShortCircuitAt(px, e) ==
    /\ decoded = CatchNull(DecodeBinary(SubSeq(RedLSBs(px), 1, e - 16)))
    /\ decoded = decodeMessage(SubSeq(px, 1, 4 * e))
    /\ \A p \in LaterPixels(px, e), v \in {0, 255} :
          decodeMessage(SetPixel(px, p, v)) = decoded

\* C18: when the delimiter ends at some pixel, decodeMessage stops at the
\* first such pixel, drops the 16 delimiter bits, and its result is a
\* function of the pixels up to that one.
C18_DecodeShortCircuit ==
    pc = "done" =>
        \A e \in DelimiterEnds(RedLSBs(pixels)) :
            (\A j \in DelimiterEnds(RedLSBs(pixels)) : e <= j) => ShortCircuitAt(pixels, e)

\* A payload was decoded from a buffer that has pixels after the first
\* delimiter.
C18_Witness ==
    /\ pc = "done"
    /\ decoded.kind = "payload"
    /\ \E e \in DelimiterEnds(RedLSBs(pixels)) : e < PixelCount(pixels)

\* C19: the bit-string encodeMessage made of the serialized payload has 8
\* bits per character, and binaryToString gives the serialized text back
\* from it.
C19_EightBitsPerCharacter ==
    encoded # "none" =>
        /\ Len(stringToBinary(JSONstringify(data))) = 8 * Len(JSONstringify(data))
        /\ binaryToString(stringToBinary(JSONstringify(data))) = JSONstringify(data)

(***************************************************************************)
(* Properties of the encode UI (checked under EncodeUISpec).               *)
(***************************************************************************)
\* C12: the data handed to encodeMessage by the encode UI has a click
\* sequence of 3 or 4 points.
C12_HandedSequenceLength ==
    handed # NoData => Len(handed.clickSequence) \in {3, 4}

\* A sequence of four points was handed over and the call is awaited.
C12_Witness ==
    /\ handed # NoData
    /\ Len(handed.clickSequence) = 4
    /\ encoding # {}

(***************************************************************************)
(* Properties of the decode UI.                                            *)
(***************************************************************************)
SuccessPending == \E i \in 1..Len(timers) : timers[i].kind = "success"

\* Squared distance between a logged click and the reference point it was
\* compared with.
Dist2(a, seq) ==
    (a.x - Denorm(seq[a.order + 1]).x) * (a.x - Denorm(seq[a.order + 1]).x)
        + (a.y - Denorm(seq[a.order + 1]).y) * (a.y - Denorm(seq[a.order + 1]).y)

\* C5: whenever a message is shown, an image is loaded, the matcher has
\* signalled success for that image since it was loaded, and the text shown
\* is the message embedded in that image.
C5_MessageGated ==
    decodedMessage # <<>> =>
        /\ image # "none"
        /\ verifiedFor = image
        /\ files[image].kind = "payload"
        /\ decodedMessage = files[image].message

\* The clicks handed to the matcher since Start Authentication are exactly
\* the reference points, in reference order.
ExactSubmitted ==
    /\ sessionExact
    /\ Len(clickSequence) > 0
    /\ sessionClicks = Len(clickSequence)

\* C6: a session in which exactly the reference points were submitted in
\* reference order is followed by the success signal being delivered.
C6_ExactMatchVerified == ExactSubmitted ~> verificationSuccess

C6_Witness == ExactSubmitted /\ SuccessPending /\ ~verificationSuccess

\* C7 as stated: no session in which the reference points were submitted in
\* reverse order schedules the success signal.
C7_ReverseNeverVerified ==
    \A i \in 1..Len(timers) : timers[i].kind = "success" => ~timers[i].reverse

\* C7: a session in which the reference points were submitted in reverse
\* order schedules the success signal only for a reference that reads the
\* same, within the tolerance, in both directions.
C7_ReverseVerifiedOnlyIfMirror ==
    \A i \in 1..Len(timers) :
        timers[i].kind = "success" /\ timers[i].reverse => timers[i].mirror

C7_Witness ==
    /\ isVerifying
    /\ sessionReverse
    /\ Len(clickSequence) \in {3, 4}
    /\ sessionClicks = Len(clickSequence)
    /\ ~Mirror(clickSequence)
    /\ ~SuccessPending
    /\ ~verificationSuccess

\* C8: a click handed to the matcher advances the step exactly when its
\* squared distance to the expected point is at most 625, and leaves the
\* step where it is otherwise.
C8_ToleranceBoundary ==
    [][Len(verificationAttempts') = Len(verificationAttempts) + 1 =>
          IF Dist2(verificationAttempts'[Len(verificationAttempts')], clickSequence) <= 625
          THEN currentStep' = currentStep + 1
          ELSE currentStep' = currentStep]_vars

\* A click at distance exactly 25 from the expected point was matched.
C8_Witness ==
    /\ Len(verificationAttempts) = 1
    /\ Dist2(verificationAttempts[1], clickSequence) = 625
    /\ currentStep = verificationAttempts[1].order + 1

\* C9: once three sessions in a row were ended by the failure signal the UI
\* is fully reset, and after one or two the image and its reference
\* sequence are still loaded.
C9_LockoutAfterThree ==
    /\ failedSessions >= 3 =>
          /\ image = "none"
          /\ clickSequence = <<>>
          /\ ~isVerifying
          /\ ~verificationSuccess
          /\ decodedMessage = <<>>
          /\ attempts = 0
    /\ failedSessions \in {1, 2} => image # "none" /\ clickSequence # <<>>

\* A step that logs a click farther than the tolerance from the point it
\* was compared with.
MismatchLogged ==
    /\ Len(verificationAttempts') = Len(verificationAttempts) + 1
    /\ Dist2(verificationAttempts'[Len(verificationAttempts')], clickSequence) > 625

\* A step that schedules the failure callback of lines 553-557.
FailureScheduled ==
    /\ Len(timers') = Len(timers) + 1
    /\ timers'[Len(timers')].kind = "failure"

\* The Failed signal as handleVerificationComplete(false) leaves the page:
\* not verifying, and the counter one higher or the page reset by lockout.
FailedDelivered ==
    /\ ~isVerifying'
    /\ \/ attempts' = attempts + 1
       \/ image' = "none" /\ clickSequence' = <<>> /\ attempts' = 0

\* C13: a click is logged as a mismatch exactly when its failure callback
\* is scheduled, the step is left where it is until then, the followed
\* callback belongs to such a click and eventually runs, and its run leaves
\* currentStep = 0, an empty attempt log and the Failed signal delivered.
C13_MismatchHandled ==
    /\ [][/\ MismatchLogged <=> FailureScheduled
          /\ MismatchLogged => currentStep' = currentStep
          /\ (~TrackedPending /\ TrackedPending') => MismatchLogged
          /\ (TrackedPending /\ ~TrackedPending') =>
                /\ currentStep' = 0
                /\ verificationAttempts' = <<>>
                /\ FailedDelivered]_vars
    /\ TrackedPending ~> ~TrackedPending

\* The followed failure callback is pending for a mismatch that came after
\* matched steps.
C13_Witness ==
    /\ TrackedPending
    /\ currentStep > 0
    /\ verificationAttempts # <<>>
    /\ Dist2(verificationAttempts[Len(verificationAttempts)], clickSequence) > 625

\* A step in which the canvas received a click of the session in progress
\* (the click count is history and stops at the reference length plus one).
ClickStep == isVerifying /\ sessionClicks' = sessionClicks + 1

\* A step that logs a click within the tolerance of the point it was
\* compared with.
MatchLogged ==
    /\ Len(verificationAttempts') = Len(verificationAttempts) + 1
    /\ Dist2(verificationAttempts'[Len(verificationAttempts')], clickSequence) <= 625

\* A step that schedules the success callback of line 550.
SuccessScheduled ==
    /\ Len(timers') = Len(timers) + 1
    /\ timers'[Len(timers')].kind = "success"

\* C14: a click received at a step below the reference length is logged
\* with that step; a logged match raises currentStep by exactly 1 and
\* schedules the success callback, and nothing else, exactly when the new
\* step equals the reference length; a success callback is only scheduled
\* by a logged match; a click received at a step at or beyond the reference
\* length changes neither the matcher, nor the pending callbacks, nor the
\* page.
C14_MatchHandled ==
    [][/\ (ClickStep /\ currentStep < Len(clickSequence)) =>
             /\ Len(verificationAttempts') = Len(verificationAttempts) + 1
             /\ SubSeq(verificationAttempts', 1, Len(verificationAttempts)) = verificationAttempts
             /\ verificationAttempts'[Len(verificationAttempts')].order = currentStep
       /\ MatchLogged =>
             /\ currentStep < Len(clickSequence)
             /\ currentStep' = currentStep + 1
             /\ IF currentStep' = Len(clickSequence)
                THEN SuccessScheduled /\ SubSeq(timers', 1, Len(timers)) = timers
                ELSE timers' = timers
       /\ SuccessScheduled => MatchLogged
       /\ (ClickStep /\ currentStep >= Len(clickSequence)) =>
             UNCHANGED <<canvasVars, timers, decodeVars>>]_vars

\* The last step was matched and its success callback is pending, and a
\* further click was received since and ignored.
C14_Witness ==
    /\ isVerifying
    /\ SuccessPending
    /\ currentStep = Len(clickSequence)
    /\ Len(verificationAttempts) = Len(clickSequence)
    /\ sessionClicks = Len(clickSequence) + 1

\* Success was signalled for the loaded image and its message is shown.
Verified == verificationSuccess /\ decodedMessage # <<>> /\ verifiedFor = image

\* C15: while the loaded image is verified and its message shown, the run
\* of a failure callback scheduled by a click on that image leaves
\* verificationSuccess true, the message shown and the image loaded.
C15_VerifiedTerminal ==
    [][(/\ Verified
        /\ \E i \in 1..Len(timers) :
              /\ timers[i].kind = "failure"
              /\ timers[i].image = image
              /\ timers' = RemoveAt(timers, i)) =>
          /\ verificationSuccess'
          /\ decodedMessage' = decodedMessage
          /\ image' = image]_vars

\* A step in which a callback scheduled by a session that Reset ended runs.
AbandonedRuns ==
    \E i \in 1..Len(timers) : timers[i].abandoned /\ timers' = RemoveAt(timers, i)

\* C16: a step that ends the session without a callback leaves currentStep
\* = 0 and an empty attempt log, and the run of a callback scheduled by a
\* session that Reset ended changes neither isVerifying, nor
\* verificationSuccess, nor the message shown, nor the failed-attempt
\* counter.
C16_AbandonedSessionSilent ==
    [][/\ (isVerifying /\ ~isVerifying' /\ Len(timers') = Len(timers)) =>
             currentStep' = 0 /\ verificationAttempts' = <<>>
       /\ AbandonedRuns =>
             UNCHANGED <<isVerifying, verificationSuccess, decodedMessage, attempts>>]_vars

\* C17: while isVerifying is true or a callback is pending the reference
\* sequence does not change, and a step that installs another non-empty
\* reference sequence leaves the matcher at currentStep = 0.
C17_ReferenceFixed ==
    [][/\ (isVerifying \/ timers # <<>>) => clickSequence' = clickSequence
       /\ (clickSequence' # clickSequence /\ clickSequence' # <<>>) => currentStep' = 0]_vars

\* C20: when the success callback is scheduled, every click logged since
\* the matcher was last reset is within the tolerance of the point it was
\* compared with.
C20_NoVerifiedAfterMismatch ==
    [][SuccessScheduled =>
          \A k \in 1..Len(verificationAttempts') :
              Dist2(verificationAttempts'[k], clickSequence) <= 625]_vars

\* C21: the run of a failure callback whose session has already raised the
\* failed-attempt counter does not raise it again.
C21_OneFailurePerSession ==
    [][\A i \in 1..Len(timers) :
          (timers[i].kind = "failure" /\ timers[i].raised /\ timers' = RemoveAt(timers, i)) =>
              attempts' <= attempts]_vars

\* C22: while an image with a reference sequence is loaded and a session
\* is running or can be started, the failed-attempt counter is at most 2.
C22_AttemptsAtMostTwo ==
    (image # "none" /\ clickSequence # <<>> /\ (isVerifying \/ ~verificationSuccess)) =>
        attempts <= 2

\* C23: currentStep is between 0 and the length of the reference sequence.
C23_StepWithinReference ==
    0 <= currentStep /\ currentStep <= Len(clickSequence)

====
